---- MODULE Spec2Model ----
(***************************************************************************)
(* A model of src/index.ts: the five reference collections and the four    *)
(* lookup maps built from them, the hierarchy accessors, the relatedness   *)
(* check, the query parser and the two search entry points.                *)
(*                                                                         *)
(* Strings are sequences of one-character strings, so that splitting,      *)
(* trimming, lower-casing and substring search are computed character by   *)
(* character.  JavaScript's undefined is the value Undefined.  Similarity  *)
(* scores are integers in tenths (10 = 1.0).                               *)
(***************************************************************************)
EXTENDS Integers, Sequences, FiniteSets, TLC

VARIABLES districts, counties, subCounties, parishes, villages,
          districtMap, countyMap, subCountyMap, parishMap,
          fuseScores, call, ret

dataVars == <<districts, counties, subCounties, parishes, villages,
              districtMap, countyMap, subCountyMap, parishMap, fuseScores>>
vars == <<districts, counties, subCounties, parishes, villages,
          districtMap, countyMap, subCountyMap, parishMap,
          fuseScores, call, ret>>

Undefined == "undefined"

(***************************************************************************)
(* Generic helpers on sequences.                                           *)
(***************************************************************************)
\* F(x), with x evaluated once and F applied to its value
With(x, F(_)) == CHOOSE r \in {F(v) : v \in {x}} : TRUE

RECURSIVE Flatten(_)
Flatten(ss) == IF ss = <<>> THEN <<>> ELSE Head(ss) \o Flatten(Tail(ss))

\* Array.prototype.slice(0, end): a negative end counts from the back
Slice0(s, end) ==
  LET n == Len(s)
      k == IF end < 0 THEN (IF n + end < 0 THEN 0 ELSE n + end)
           ELSE (IF end > n THEN n ELSE end)
  IN SubSeq(s, 1, k)

(***************************************************************************)
(* Characters.                                                             *)
(***************************************************************************)
WhiteSpace == {" ", "\t"}
IsSpace(c) == c \in WhiteSpace

\* String.prototype.toLowerCase on one character
LowerChar(c) ==
  CASE c = "I" -> "i" [] c = "N" -> "n" [] c = "A" -> "a" [] c = "T" -> "t"
    [] c = "K" -> "k" [] OTHER -> c

toLowerCase(s) == [i \in 1..Len(s) |-> LowerChar(s[i])]

\* String.prototype.trim
trim(s) ==
  LET idx == {i \in 1..Len(s) : ~IsSpace(s[i])}
  IN IF idx = {} THEN <<>>
     ELSE LET lo == CHOOSE i \in idx : \A j \in idx : i <= j
              hi == CHOOSE i \in idx : \A j \in idx : i >= j
          IN SubSeq(s, lo, hi)

\* String.prototype.includes
includes(s, sub) ==
  \E i \in 1..(Len(s) - Len(sub) + 1) : SubSeq(s, i, i + Len(sub) - 1) = sub

(***************************************************************************)
(* parseQuery: query.split(/[,;]|\s+in\s+|\s+at\s+/i), trim, drop empties.  *)
(***************************************************************************)
\* the end of the maximal run of whitespace that starts at i (i itself when
\* s[i] is no whitespace): what a greedy \s+ consumes
SpaceRunEnd(s, i) ==
  CHOOSE j \in i..(Len(s) + 1) :
    /\ \A k \in i..(j - 1) : IsSpace(s[k])
    /\ (j = Len(s) + 1 \/ ~IsSpace(s[j]))

\* \s+<w>\s+ (case-insensitive) matched at position i: the position after
\* the match, or 0.  Backtracking the greedy \s+ never helps: the character
\* after a shorter run is whitespace, not the word's first letter.
MatchWordAt(s, i, w) ==
  LET a == SpaceRunEnd(s, i)
  IN IF /\ a > i
        /\ a + 1 <= Len(s)
        /\ LowerChar(s[a]) = w[1]
        /\ LowerChar(s[a + 1]) = w[2]
        /\ SpaceRunEnd(s, a + 2) > a + 2
     THEN SpaceRunEnd(s, a + 2)
     ELSE 0

\* the separator regular expression matched at position i, alternatives in
\* their order: the position after the match, or 0
separators(s, i) ==
  IF s[i] \in {",", ";"} THEN i + 1
  ELSE IF MatchWordAt(s, i, <<"i", "n">>) # 0
       THEN MatchWordAt(s, i, <<"i", "n">>)
       ELSE MatchWordAt(s, i, <<"a", "t">>)

RECURSIVE SplitFrom(_, _, _)
\* String.prototype.split: p starts the current segment, q is the position
\* where a match is tried next; a match consumes its characters
SplitFrom(s, p, q) ==
  IF q > Len(s) THEN <<SubSeq(s, p, Len(s))>>
  ELSE LET e == separators(s, q)
       IN IF e # 0 THEN <<SubSeq(s, p, q - 1)>> \o SplitFrom(s, e, e)
          ELSE SplitFrom(s, p, q + 1)

split(s) == SplitFrom(s, 1, 1)

parseQuery(query) ==
  With(split(query), LAMBDA parts :
    SelectSeq([i \in DOMAIN parts |-> trim(parts[i])],
              LAMBDA term : Len(term) > 0))

(***************************************************************************)
(* Reference data.  A unit is a record with its id, its name and (below    *)
(* the district level) the id of its parent, under the field name the      *)
(* source's interfaces give it.                                            *)
(***************************************************************************)
Ka  == <<"K", "a">>
Na  == <<"N", "a">>
Kan == <<"K", "a", "n">>

\* new Map() filled by collection.forEach((u) => map.set(u.id, u)): the last
\* unit of an id wins
BuildMap(collection) ==
  [id \in {collection[i].id : i \in DOMAIN collection} |->
     collection[CHOOSE i \in DOMAIN collection :
                  /\ collection[i].id = id
                  /\ \A j \in DOMAIN collection : collection[j].id = id => j <= i]]

\* Map.prototype.has; Map.prototype.get is map[id] where has holds
Has(map, id) == id \in DOMAIN map

\* the state after the module has loaded: the five collections with the
\* parent references pr, and the four maps built from them
LoadData(pr) ==
  /\ districts = <<[id |-> "1", name |-> Ka], [id |-> "2", name |-> Na]>>
  /\ counties = <<[id |-> "1", name |-> Na, district |-> pr.c1],
                  [id |-> "2", name |-> Kan, district |-> pr.c2]>>
  /\ subCounties = <<[id |-> "1", name |-> Ka, county |-> pr.s1],
                     [id |-> "2", name |-> Na, county |-> pr.s2]>>
  /\ parishes = <<[id |-> "1", name |-> Kan, subcounty |-> pr.p1],
                  [id |-> "2", name |-> Ka, subcounty |-> pr.p2]>>
  /\ villages = <<[id |-> "1", name |-> Na, parish |-> pr.v1],
                  [id |-> "2", name |-> Kan, parish |-> pr.v2]>>
  /\ districtMap = BuildMap(districts)
  /\ countyMap = BuildMap(counties)
  /\ subCountyMap = BuildMap(subCounties)
  /\ parishMap = BuildMap(parishes)

(***************************************************************************)
(* Hierarchy accessors.  A missing key and a key holding undefined read    *)
(* the same in JavaScript; both are Undefined (UndefinedName) here.  Each  *)
(* accessor's walk up the maps is the accessor of the level above applied  *)
(* to the parent reference, which is what the source spells out inline.    *)
(***************************************************************************)
\* names are sequences of characters, so is the undefined name
UndefinedName == <<"undefined">>

NoNames == [village |-> UndefinedName, parish |-> UndefinedName,
            subCounty |-> UndefinedName, county |-> UndefinedName,
            district |-> UndefinedName]

\* districtMap.get(id)?.name
DistrictName(id) ==
  IF Has(districtMap, id) THEN districtMap[id].name ELSE UndefinedName

getDistrictHierarchy(districtId) ==
  [NoNames EXCEPT !.district = DistrictName(districtId)]

getCountyHierarchy(countyId) ==
  IF ~Has(countyMap, countyId) THEN NoNames
  ELSE LET county == countyMap[countyId]
       IN [NoNames EXCEPT !.county = county.name,
                          !.district = DistrictName(county.district)]

getSubCountyHierarchy(subCountyId) ==
  IF ~Has(subCountyMap, subCountyId) THEN NoNames
  ELSE LET subCounty == subCountyMap[subCountyId]
           up == getCountyHierarchy(subCounty.county)
       IN [NoNames EXCEPT !.subCounty = subCounty.name,
                          !.county = up.county,
                          !.district = up.district]

getParishHierarchy(parishId) ==
  IF ~Has(parishMap, parishId) THEN NoNames
  ELSE LET parish == parishMap[parishId]
           up == getSubCountyHierarchy(parish.subcounty)
       IN [NoNames EXCEPT !.parish = parish.name,
                          !.subCounty = up.subCounty,
                          !.county = up.county,
                          !.district = up.district]

getVillageHierarchy(village) ==
  LET up == getParishHierarchy(village.parish)
  IN [NoNames EXCEPT !.village = village.name,
                     !.parish = up.parish,
                     !.subCounty = up.subCounty,
                     !.county = up.county,
                     !.district = up.district]

NoChain == [districtId |-> Undefined, countyId |-> Undefined,
            subCountyId |-> Undefined, parishId |-> Undefined,
            villageId |-> Undefined]

\* case "county" of getHierarchyChain
CountyChain(id) ==
  IF ~Has(countyMap, id) THEN NoChain
  ELSE [NoChain EXCEPT !.districtId = countyMap[id].district, !.countyId = id]

\* case "subCounty", had it left out a county id that names no county
SubCountyChainTruncating(id) ==
  IF ~Has(subCountyMap, id) THEN NoChain
  ELSE LET subCounty == subCountyMap[id]
       IN IF Has(countyMap, subCounty.county)
          THEN [NoChain EXCEPT !.districtId = countyMap[subCounty.county].district,
                               !.countyId = subCounty.county,
                               !.subCountyId = id]
          ELSE [NoChain EXCEPT !.subCountyId = id]

\* case "subCounty"
SubCountyChain(id) ==
  IF ~Has(subCountyMap, id) THEN NoChain
  ELSE LET subCounty == subCountyMap[id]
       IN [NoChain EXCEPT
             !.districtId = IF Has(countyMap, subCounty.county)
                            THEN countyMap[subCounty.county].district
                            ELSE Undefined,
             !.countyId = subCounty.county,
             !.subCountyId = id]

\* case "parish"
ParishChain(id) ==
  IF ~Has(parishMap, id) THEN NoChain
  ELSE LET parish == parishMap[id]
           hasSub == Has(subCountyMap, parish.subcounty)
           hasCounty == hasSub /\ Has(countyMap, subCountyMap[parish.subcounty].county)
       IN [NoChain EXCEPT
             !.districtId = IF hasCounty
                            THEN countyMap[subCountyMap[parish.subcounty].county].district
                            ELSE Undefined,
             !.countyId = IF hasSub THEN subCountyMap[parish.subcounty].county
                          ELSE Undefined,
             !.subCountyId = parish.subcounty,
             !.parishId = id]

\* case "village", had it taken the county id for the district id
VillageChainWrongDistrict(id) ==
  IF \A i \in DOMAIN villages : villages[i].id # id THEN NoChain
  ELSE LET village == villages[CHOOSE i \in DOMAIN villages : villages[i].id = id]
           hasParish == Has(parishMap, village.parish)
           hasSub == hasParish /\ Has(subCountyMap, parishMap[village.parish].subcounty)
           subId == parishMap[village.parish].subcounty
       IN [NoChain EXCEPT
             !.districtId = IF hasSub THEN subCountyMap[subId].county ELSE Undefined,
             !.countyId = IF hasSub THEN subCountyMap[subId].county ELSE Undefined,
             !.subCountyId = IF hasParish THEN subId ELSE Undefined,
             !.parishId = village.parish,
             !.villageId = id]

\* case "village": villages.find((v) => v.id === id) is the first such unit
VillageChain(id) ==
  IF \A i \in DOMAIN villages : villages[i].id # id THEN NoChain
  ELSE LET village == villages[CHOOSE i \in DOMAIN villages :
                                 /\ villages[i].id = id
                                 /\ \A j \in DOMAIN villages :
                                      villages[j].id = id => i <= j]
           hasParish == Has(parishMap, village.parish)
           hasSub == hasParish /\ Has(subCountyMap, parishMap[village.parish].subcounty)
           subId == parishMap[village.parish].subcounty
           hasCounty == hasSub /\ Has(countyMap, subCountyMap[subId].county)
       IN [NoChain EXCEPT
             !.districtId = IF hasCounty
                            THEN countyMap[subCountyMap[subId].county].district
                            ELSE Undefined,
             !.countyId = IF hasSub THEN subCountyMap[subId].county ELSE Undefined,
             !.subCountyId = IF hasParish THEN subId ELSE Undefined,
             !.parishId = village.parish,
             !.villageId = id]

getHierarchyChain(type, id) ==
  CASE type = "district" -> [NoChain EXCEPT !.districtId = id]
    [] type = "county" -> CountyChain(id)
    [] type = "subCounty" -> SubCountyChain(id)
    [] type = "parish" -> ParishChain(id)
    [] type = "village" -> VillageChain(id)
    [] OTHER -> NoChain

\* the truthiness test of a chain field: undefined and "" are falsy
Truthy(x) == x # Undefined /\ x # ""

\* areRelated, had it stopped at the sub-county level
areRelatedNoParish(result1, result2) ==
  LET chain1 == getHierarchyChain(result1.type, result1.id)
      chain2 == getHierarchyChain(result2.type, result2.id)
  IN \/ (Truthy(chain1.districtId) /\ chain1.districtId = chain2.districtId)
     \/ (Truthy(chain1.countyId) /\ chain1.countyId = chain2.countyId)
     \/ (Truthy(chain1.subCountyId) /\ chain1.subCountyId = chain2.subCountyId)

\* areRelated, had its last test forgotten the second chain
areRelatedFirstOnly(result1, result2) ==
  LET chain1 == getHierarchyChain(result1.type, result1.id)
      chain2 == getHierarchyChain(result2.type, result2.id)
  IN \/ (Truthy(chain1.districtId) /\ chain1.districtId = chain2.districtId)
     \/ (Truthy(chain1.countyId) /\ chain1.countyId = chain2.countyId)
     \/ (Truthy(chain1.subCountyId) /\ chain1.subCountyId = chain2.subCountyId)
     \/ Truthy(chain1.parishId)

areRelated(result1, result2) ==
  LET chain1 == getHierarchyChain(result1.type, result1.id)
      chain2 == getHierarchyChain(result2.type, result2.id)
  IN \/ (Truthy(chain1.districtId) /\ chain1.districtId = chain2.districtId)
     \/ (Truthy(chain1.countyId) /\ chain1.countyId = chain2.countyId)
     \/ (Truthy(chain1.subCountyId) /\ chain1.subCountyId = chain2.subCountyId)
     \/ (Truthy(chain1.parishId) /\ chain1.parishId = chain2.parishId)

(***************************************************************************)
(* The fuzzy indexes.  Fuse.js is a dependency, not part of the source: a  *)
(* search is modelled by what the design document says of it.  fuseScores  *)
(* is the dissimilarity (in tenths, 0 = identical, 10 = nothing in common) *)
(* the library computes for a term and a name.                             *)
(***************************************************************************)
threshold == 4
minMatchCharLength == 2

Dissimilarity(term, name) ==
  IF <<term, name>> \in DOMAIN fuseScores THEN fuseScores[<<term, name>>] ELSE 10

\* s in the order a consistent comparator sorts it into; Before(a, b) is
\* "the comparator is negative on (a, b)".  Array.prototype.sort is stable.
SortedBy(s0, Before(_, _)) ==
  With(s0, LAMBDA s :
    With([i \in 1..Len(s) |->
            1 + Cardinality({j \in 1..Len(s) :
                               \/ Before(s[j], s[i])
                               \/ (~Before(s[i], s[j]) /\ j < i)})],
         LAMBDA rank : [p \in 1..Len(s) |->
                          s[CHOOSE i \in 1..Len(s) : rank[i] = p]]))

\* fuse.search(term, { limit }): the units whose name matches, best first,
\* ties in collection order, cut to limit when limit > -1
FuseSearch(collection, term, limit) ==
  With(SortedBy(SelectSeq([i \in DOMAIN collection |->
                             [item |-> collection[i],
                              score |-> Dissimilarity(term, collection[i].name)]],
                          LAMBDA h : Len(term) >= minMatchCharLength
                                     /\ h.score < threshold),
                LAMBDA a, b : a.score < b.score),
       LAMBDA ranked : IF limit > -1 THEN Slice0(ranked, limit) ELSE ranked)

(***************************************************************************)
(* fuzzySearchSingleTerm                                                   *)
(***************************************************************************)
\* the object literal pushed for one hit: score is 1 - (result.score || 0)
SearchResultOf(type, hit, term, names) ==
  [type |-> type, id |-> hit.item.id, name |-> hit.item.name,
   score |-> 10 - hit.score, matchedTerm |-> term,
   village |-> names.village, parish |-> names.parish,
   subCounty |-> names.subCounty, county |-> names.county,
   district |-> names.district]

LevelResults(type, collection, term, maxResults) ==
  With(FuseSearch(collection, term, maxResults), LAMBDA hits :
    [i \in DOMAIN hits |->
       SearchResultOf(type, hits[i], term,
         CASE type = "district" -> getDistrictHierarchy(hits[i].item.id)
           [] type = "county" -> getCountyHierarchy(hits[i].item.id)
           [] type = "subCounty" -> getSubCountyHierarchy(hits[i].item.id)
           [] type = "parish" -> getParishHierarchy(hits[i].item.id)
           [] OTHER -> getVillageHierarchy(hits[i].item))])

\* fuzzySearchSingleTerm, had it left the villages out
fuzzySearchSingleTermNoVillages(term, maxResults) ==
  LevelResults("district", districts, term, maxResults)
  \o LevelResults("county", counties, term, maxResults)
  \o LevelResults("subCounty", subCounties, term, maxResults)
  \o LevelResults("parish", parishes, term, maxResults)

fuzzySearchSingleTerm(term, maxResults) ==
  LevelResults("district", districts, term, maxResults)
  \o LevelResults("county", counties, term, maxResults)
  \o LevelResults("subCounty", subCounties, term, maxResults)
  \o LevelResults("parish", parishes, term, maxResults)
  \o LevelResults("village", villages, term, maxResults)

(***************************************************************************)
(* searchAdministrativeUnits                                               *)
(***************************************************************************)
DefaultMaxResults == 100
MultiTermLimit == 30
\* hierarchyBonus in tenths: 1.0 and 1.5
NoBonus == 10
RelatedBonus == 15

\* find, had it taken the best-scoring related match instead of the first
FindRelatedBest(firstResult, otherTermMatches) ==
  LET found == {i \in DOMAIN otherTermMatches :
                  areRelated(firstResult, otherTermMatches[i])}
  IN IF found = {} THEN 0
     ELSE CHOOSE i \in found :
            \A j \in found :
              \/ otherTermMatches[i].score > otherTermMatches[j].score
              \/ (otherTermMatches[i].score = otherTermMatches[j].score /\ i <= j)

\* otherTermMatches.find((r) => areRelated(firstResult, r)): its index, or 0
FindRelated(firstResult, otherTermMatches) ==
  LET found == {i \in DOMAIN otherTermMatches :
                  areRelated(firstResult, otherTermMatches[i])}
  IN IF found = {} THEN 0 ELSE CHOOSE i \in found : \A j \in found : i <= j

RECURSIVE ScanOtherTerms(_, _, _, _)
\* the loop for (let i = 1; i < termResults.length; i++) from index i (1-based
\* here), carrying matchCount, totalScore and hierarchyBonus in acc
ScanOtherTerms(firstResult, termResults, i, acc) ==
  IF i > Len(termResults) THEN acc
  ELSE With(FindRelated(firstResult, termResults[i].matches), LAMBDA k :
         ScanOtherTerms(firstResult, termResults, i + 1,
           IF k = 0 THEN acc
           ELSE [matchCount |-> acc.matchCount + 1,
                 totalScore |-> acc.totalScore + termResults[i].matches[k].score,
                 hierarchyBonus |-> RelatedBonus]))

\* (totalScore / terms.length) * hierarchyBonus * (matchCount / terms.length)
\* as an exact fraction; totalScore and hierarchyBonus are in tenths
CombinedScore(acc, n) ==
  [num |-> acc.totalScore * acc.hierarchyBonus * acc.matchCount,
   den |-> 10 * 10 * n * n]

\* Number.prototype.toFixed(3): the decimal string, given by the value in
\* thousandths rounded to nearest
toFixed3(x) ==
  [string |-> TRUE, thousandths |-> (2 * 1000 * x.num + x.den) \div (2 * x.den)]

\* the entry pushed to combinedResults for one match of the first term
CombinedResultOf(firstResult, termResults) ==
  With(ScanOtherTerms(firstResult, termResults, 2,
         [matchCount |-> 1, totalScore |-> firstResult.score,
          hierarchyBonus |-> NoBonus]),
       LAMBDA acc :
         [result |-> firstResult, matchCount |-> acc.matchCount,
          hierarchyBonus |-> acc.hierarchyBonus,
          combinedScore |-> CombinedScore(acc, Len(termResults))])

\* the final map: matchCount, hierarchyBonus, combinedScore and matchedTerm
\* are dropped, matchInfo is attached
RankedResultOf(c, n) ==
  [type |-> c.result.type, id |-> c.result.id, name |-> c.result.name,
   score |-> c.result.score,
   village |-> c.result.village, parish |-> c.result.parish,
   subCounty |-> c.result.subCounty, county |-> c.result.county,
   district |-> c.result.district,
   matchInfo |-> [matchedTerms |-> c.matchCount, totalTerms |-> n,
                  confidence |-> toFixed3(c.combinedScore)]]

\* (a, b) => b.score - a.score is negative
ByScore(a, b) == a.score > b.score

\* the multi-term comparator, had it left the entries as they come
ByNothing(a, b) == FALSE

\* the multi-term comparator is negative on (a, b)
ByMatchCountThenScore(a, b) ==
  IF a.matchCount # b.matchCount THEN a.matchCount > b.matchCount
  ELSE a.combinedScore.num * b.combinedScore.den
         > b.combinedScore.num * a.combinedScore.den

Threw(e) == [status |-> e, value |-> <<>>]
Returned(v) == [status |-> "ok", value |-> v]

\* the multi-term branch, had it kept only the seeds related to a match of
\* another term
RankCombinedRelatedOnly(termResults, maxResults) ==
  With(SortedBy(SelectSeq([i \in DOMAIN termResults[1].matches |->
                             CombinedResultOf(termResults[1].matches[i],
                                              termResults)],
                          LAMBDA c : c.matchCount > 1),
                ByMatchCountThenScore),
       LAMBDA sorted :
         [i \in DOMAIN Slice0(sorted, maxResults) |->
            RankedResultOf(sorted[i], Len(termResults))])

\* the multi-term branch, from the matches of each term on
RankCombined(termResults, maxResults) ==
  With(SortedBy([i \in DOMAIN termResults[1].matches |->
                   CombinedResultOf(termResults[1].matches[i], termResults)],
                ByMatchCountThenScore),
       LAMBDA sorted :
         [i \in DOMAIN Slice0(sorted, maxResults) |->
            RankedResultOf(sorted[i], Len(termResults))])

\* the body of searchAdministrativeUnits once the query is parsed
SearchTerms(terms, maxResults) ==
  IF Len(terms) = 1
  THEN Returned(Slice0(SortedBy(fuzzySearchSingleTerm(terms[1], maxResults),
                                ByScore),
                       maxResults))
  ELSE IF Len(terms) = 0
  \* termResults[0] is undefined: reading its matches throws
  THEN Threw("TypeError")
  ELSE With([i \in DOMAIN terms |->
               [term |-> terms[i],
                matches |-> fuzzySearchSingleTerm(terms[i], MultiTermLimit)]],
            LAMBDA termResults : Returned(RankCombined(termResults, maxResults)))

searchAdministrativeUnits(query, maxResults) ==
  With(parseQuery(query), LAMBDA terms : SearchTerms(terms, maxResults))

(***************************************************************************)
(* exactSearchAdministrativeUnits                                          *)
(***************************************************************************)
\* the object literal pushed for one unit whose name contains the query
ExactResultOf(type, unit, names) ==
  [type |-> type, id |-> unit.id, name |-> unit.name,
   village |-> names.village, parish |-> names.parish,
   subCounty |-> names.subCounty, county |-> names.county,
   district |-> names.district]

ExactLevel(type, collection, lowerQuery) ==
  With(SelectSeq(collection,
                 LAMBDA u : includes(toLowerCase(u.name), lowerQuery)),
       LAMBDA hits :
         [i \in DOMAIN hits |->
            ExactResultOf(type, hits[i],
              CASE type = "district" -> getDistrictHierarchy(hits[i].id)
                [] type = "county" -> getCountyHierarchy(hits[i].id)
                [] type = "subCounty" -> getSubCountyHierarchy(hits[i].id)
                [] type = "parish" -> getParishHierarchy(hits[i].id)
                [] OTHER -> getVillageHierarchy(hits[i]))])

exactSearchAdministrativeUnits(query) ==
  With(trim(toLowerCase(query)), LAMBDA lowerQuery :
    IF lowerQuery = <<>> THEN Returned(<<>>)
    ELSE Returned(ExactLevel("district", districts, lowerQuery)
                  \o ExactLevel("county", counties, lowerQuery)
                  \o ExactLevel("subCounty", subCounties, lowerQuery)
                  \o ExactLevel("parish", parishes, lowerQuery)
                  \o ExactLevel("village", villages, lowerQuery)))

(***************************************************************************)
(* Calls and their outcomes.  call is the last call made, ret its outcome: *)
(* status "ok" with the returned value, or the error thrown.               *)
(***************************************************************************)
NoCall == [op |-> "none", type |-> "", id |-> "", type2 |-> "", id2 |-> "",
           query |-> <<>>, limit |-> 0]

Types == {"district", "county", "subCounty", "parish", "village"}
\* "region" stands for a type string that names no level
AnyTypes == Types \cup {"region"}
\* "9" is an identifier no unit of any level has
Ids == {"1", "2", "9"}

Pending == [status |-> "pending", value |-> <<>>]

\* the pending call is getHierarchyChain(call.type, call.id): it returns
CallGetHierarchyChain ==
  /\ call.op = "getHierarchyChain"
  /\ ret.status = "pending"
  /\ ret' = Returned(getHierarchyChain(call.type, call.id))
  /\ UNCHANGED <<dataVars, call>>

\* the pending call is areRelated of two candidates: it returns
CallAreRelated ==
  /\ call.op = "areRelated"
  /\ ret.status = "pending"
  /\ ret' = Returned(areRelated([type |-> call.type, id |-> call.id],
                                [type |-> call.type2, id |-> call.id2]))
  /\ UNCHANGED <<dataVars, call>>

\* a data set in which every parent reference resolves: two separate trees
WellFormedParents ==
  [c1 |-> "1", c2 |-> "2", s1 |-> "1", s2 |-> "2",
   p1 |-> "1", p2 |-> "2", v1 |-> "1", v2 |-> "2"]

\* the score table of a data set nothing is searched in
NoScores == <<>>

\* the parent references of the data sets of the hierarchy specification:
\* well-formed ones and ones with dangling references at every level
ChainParents ==
  [c1 : {"1", "2"}, c2 : {"2", "9"},
   s1 : {"1", "9"}, s2 : {"1", "2", "9"},
   p1 : {"1", "9"}, p2 : {"1", "2", "9"},
   v1 : {"1", "2", "9"}, v2 : {"1", "2", "9"}]

\* the calls of the hierarchy specification
ChainCalls ==
  {[NoCall EXCEPT !.op = "getHierarchyChain", !.type = type, !.id = id] :
     type \in AnyTypes, id \in Ids}
  \cup
  {[NoCall EXCEPT !.op = "areRelated", !.type = c[1], !.id = c[2],
                  !.type2 = c[3], !.id2 = c[4]] :
     c \in Types \X Ids \X Types \X Ids}

InitChain ==
  /\ \E pr \in ChainParents : LoadData(pr)
  /\ fuseScores = NoScores
  /\ call \in ChainCalls
  /\ ret = Pending

NextChain ==
  \/ CallGetHierarchyChain
  \/ CallAreRelated

SpecChain == InitChain /\ [][NextChain]_vars

(***************************************************************************)
(* The search specification: a data set, a score table and a call are      *)
(* drawn; the call returns or throws.                                      *)
(***************************************************************************)
MaxTerms == 2
MaxLimit == 2
NegLimits == 1

TermKa == <<"K", "a">>
TermNa == <<"n", "a">>
\* a term below minMatchCharLength
TermK == <<"k">>
Words == {TermKa, TermNa, TermK}

\* words joined by one separator: a comma, or the word "in" between spaces
RECURSIVE Join(_, _)
Join(ws, sep) ==
  IF Len(ws) = 1 THEN ws[1] ELSE ws[1] \o sep \o Join(Tail(ws), sep)

BlankQueries == {<<>>, <<" ">>, <<" ", "\t">>}
SearchQueries ==
  BlankQueries
  \cup {Join(ws, sep) : ws \in UNION {[1..n -> Words] : n \in 1..MaxTerms},
                        sep \in {<<",", " ">>, <<" ", "i", "n", " ">>}}

Limits == ((0 - NegLimits)..MaxLimit) \cup {DefaultMaxResults}

SearchCalls ==
  {[NoCall EXCEPT !.op = "searchAdministrativeUnits", !.query = q, !.limit = l] :
     q \in SearchQueries, l \in Limits}
  \cup
  {[NoCall EXCEPT !.op = "exactSearchAdministrativeUnits", !.query = q] :
     q \in SearchQueries}

\* a data set with two counties in one district, a district without units
\* below it, and a parish whose sub-county reference dangles
MixedParents ==
  [c1 |-> "1", c2 |-> "1", s1 |-> "1", s2 |-> "2",
   p1 |-> "2", p2 |-> "9", v1 |-> "1", v2 |-> "2"]

SearchParents == {WellFormedParents, MixedParents}

\* the score tables: a name equal to the term but for letter case is at 0,
\* any other name is a near match (1), a far match (3) or no match (10)
ScoreTables ==
  {t \in [{TermKa, TermNa} \X {Ka, Na, Kan} -> {0, 1, 3, 10}] :
     \A k \in DOMAIN t : t[k] = 0 <=> toLowerCase(k[1]) = toLowerCase(k[2])}

\* searchAdministrativeUnits, had it reordered the villages in place on
\* its way
CallSearchReorderingVillages ==
  /\ call.op = "searchAdministrativeUnits"
  /\ ret.status = "pending"
  /\ ret' = searchAdministrativeUnits(call.query, call.limit)
  /\ villages' = [i \in DOMAIN villages |-> villages[Len(villages) + 1 - i]]
  /\ UNCHANGED <<districts, counties, subCounties, parishes, districtMap,
                 countyMap, subCountyMap, parishMap, fuseScores, call>>

\* the pending call is searchAdministrativeUnits(query, maxResults)
CallSearch ==
  /\ call.op = "searchAdministrativeUnits"
  /\ ret.status = "pending"
  /\ ret' = searchAdministrativeUnits(call.query, call.limit)
  /\ UNCHANGED <<dataVars, call>>

\* the pending call is exactSearchAdministrativeUnits(query)
CallExactSearch ==
  /\ call.op = "exactSearchAdministrativeUnits"
  /\ ret.status = "pending"
  /\ ret' = exactSearchAdministrativeUnits(call.query)
  /\ UNCHANGED <<dataVars, call>>

Init ==
  /\ \E pr \in SearchParents : LoadData(pr)
  /\ fuseScores \in ScoreTables
  /\ call \in SearchCalls
  /\ ret = Pending

Next ==
  \/ CallSearch
  \/ CallExactSearch

Spec == Init /\ [][Next]_vars

(***************************************************************************)
(* The hierarchy as the collections state it, for the claims: levels are   *)
(* numbered 1 (district) to 5 (village).                                   *)
(***************************************************************************)
LevelName == <<"district", "county", "subCounty", "parish", "village">>
LevelOf(type) == CHOOSE k \in 1..5 : LevelName[k] = type
CollectionAt(k) ==
  CASE k = 1 -> districts [] k = 2 -> counties [] k = 3 -> subCounties
    [] k = 4 -> parishes [] OTHER -> villages
ParentRefOf(k, u) ==
  CASE k = 2 -> u.district [] k = 3 -> u.county [] k = 4 -> u.subcounty
    [] OTHER -> u.parish
ExistsAt(k, id) == \E i \in DOMAIN CollectionAt(k) : CollectionAt(k)[i].id = id
UnitAt(k, id) ==
  CollectionAt(k)[CHOOSE i \in DOMAIN CollectionAt(k) : CollectionAt(k)[i].id = id]
ChainField(chain, k) ==
  CASE k = 1 -> chain.districtId [] k = 2 -> chain.countyId
    [] k = 3 -> chain.subCountyId [] k = 4 -> chain.parishId
    [] OTHER -> chain.villageId

RECURSIVE ResolvesDownTo(_, _, _)
\* the units of levels k, k-1, .., m on the path upward from (k, id) exist
ResolvesDownTo(k, id, m) ==
  /\ ExistsAt(k, id)
  /\ (k > m => ResolvesDownTo(k - 1, ParentRefOf(k, UnitAt(k, id)), m))

RECURSIVE StoredRef(_, _, _)
\* the identifier for level j that the stored parent references lead to
\* from (k, id), whether or not it names a unit; Undefined when the path
\* breaks below level j + 1
StoredRef(k, id, j) ==
  IF j = k THEN id
  ELSE IF ~ExistsAt(k, id) THEN Undefined
  ELSE StoredRef(k - 1, ParentRefOf(k, UnitAt(k, id)), j)

IsChainCallOn(k) ==
  /\ call.op = "getHierarchyChain"
  /\ ret.status = "ok"
  /\ call.type = LevelName[k]
  /\ ExistsAt(k, call.id)

\* C5: for a unit present in the reference data, the chain holds the unit's
\* own id in the field of its level and, when every parent reference on the
\* path to the district resolves, the id of the actual ancestor (an existing
\* unit) in the field of every level above.
C5_ChainOfPresentUnit ==
  \A k \in 1..5 :
    IsChainCallOn(k) =>
      /\ ret.status = "ok"
      /\ ChainField(ret.value, k) = call.id
      /\ ResolvesDownTo(k, call.id, 1) =>
           \A j \in 1..(k - 1) :
             /\ ChainField(ret.value, j) # Undefined
             /\ ChainField(ret.value, j) = StoredRef(k, call.id, j)
             /\ ExistsAt(j, ChainField(ret.value, j))

C5_Witness ==
  /\ IsChainCallOn(5)
  /\ ResolvesDownTo(5, call.id, 1)
  /\ ret.value.districtId # Undefined
  /\ ret.value.districtId # ret.value.countyId
  /\ ret.value.countyId # ret.value.subCountyId

IsRelatedCall == call.op = "areRelated" /\ ret.status = "ok"
CandidateA == [type |-> call.type, id |-> call.id]
CandidateB == [type |-> call.type2, id |-> call.id2]
ChainA == getHierarchyChain(call.type, call.id)
ChainB == getHierarchyChain(call.type2, call.id2)
\* the two chains hold the same non-null identifier at one of the levels ks
SharesAt(ks) ==
  \E k \in ks : ChainField(ChainA, k) # Undefined
                /\ ChainField(ChainA, k) = ChainField(ChainB, k)

\* C8: areRelated is symmetric: what areRelated(A, B) returned is what
\* areRelated(B, A) returns, for candidates of any levels, unknown ids and
\* units with dangling parent references included.
C8_RelatedSymmetric ==
  IsRelatedCall => ret.value = areRelated(CandidateB, CandidateA)

C8_Witness ==
  /\ IsRelatedCall
  /\ ret.value = TRUE
  /\ call.type = "county" /\ call.type2 = "village"
  /\ ~ExistsAt(1, ChainA.districtId)

\* C9 as stated: two candidates are related if and only if their chains share
\* a non-null identifier at the district, county or sub-county level.
C9_RelatedIffSharedUpToSubCounty ==
  IsRelatedCall => (ret.value <=> SharesAt({1, 2, 3}))

\* C9 as amended: two candidates are related if and only if their chains
\* share a non-empty identifier at the district, county, sub-county or parish
\* level; sharing only a village identifier does not relate them.
C9_RelatedIffSharedUpToParish ==
  IsRelatedCall => (ret.value <=> SharesAt({1, 2, 3, 4}))

C9_Witness ==
  /\ IsRelatedCall
  /\ ret.value = TRUE
  /\ SharesAt({4})
  /\ ~SharesAt({1, 2, 3})
  /\ CandidateA # CandidateB

\* C10 as stated: for a present unit of level k, every chain field above k is
\* non-null if and only if every parent link up to the district resolves, and
\* no identifier in the chain names a unit that does not exist; no error.
C10_ChainFullIffAllLinksResolve ==
  \A k \in 1..5 :
    IsChainCallOn(k) =>
      /\ (\A j \in 1..(k - 1) : ChainField(ret.value, j) # Undefined)
           <=> ResolvesDownTo(k, call.id, 1)
      /\ \A j \in 1..(k - 1) :
           ChainField(ret.value, j) # Undefined
             => ExistsAt(j, ChainField(ret.value, j))

\* C10 as amended: for a present unit of level k, the chain field of a level
\* j above k is non-null if and only if the units of the levels k down to
\* j + 1 on the path all exist, and it then holds the parent reference stored
\* in the unit of level j + 1, whether or not that names an existing unit (so
\* all fields above k are non-null iff every link up to the county resolves);
\* nothing is held above a dangling identifier, and no error is raised.
C10_ChainHoldsStoredRefs ==
  \A k \in 1..5 :
    IsChainCallOn(k) =>
      /\ ret.status = "ok"
      /\ \A j \in 1..(k - 1) :
           /\ ChainField(ret.value, j) # Undefined
                <=> ResolvesDownTo(k, call.id, j + 1)
           /\ ChainField(ret.value, j) = StoredRef(k, call.id, j)
           /\ (ChainField(ret.value, j) # Undefined
               /\ ~ExistsAt(j, ChainField(ret.value, j)))
                => \A i \in 1..(j - 1) : ChainField(ret.value, i) = Undefined

C10_Witness ==
  /\ IsChainCallOn(3)
  /\ ret.value.countyId # Undefined
  /\ ~ExistsAt(2, ret.value.countyId)
  /\ ret.value.districtId = Undefined

(***************************************************************************)
(* The parser specification: a query is drawn, parseQuery is applied.      *)
(***************************************************************************)
MaxTokens == 5

\* the pieces queries are made of: the separators, the separator words in
\* mixed case, whitespace, and a letter that glues to a word
Tokens == {<<" ">>, <<"\t">>, <<",">>, <<";">>, <<"i", "n">>, <<"A", "t">>, <<"x">>}

ParseInputs ==
  {Flatten(ts) : ts \in UNION {[1..n -> Tokens] : n \in 0..MaxTokens}}

\* the pending call is parseQuery(call.query): it returns
CallParseQuery ==
  /\ call.op = "parseQuery"
  /\ ret.status = "pending"
  /\ ret' = Returned(parseQuery(call.query))
  /\ UNCHANGED <<dataVars, call>>

InitParse ==
  /\ LoadData(WellFormedParents)
  /\ fuseScores = NoScores
  /\ call \in {[NoCall EXCEPT !.op = "parseQuery", !.query = q] : q \in ParseInputs}
  /\ ret = Pending

NextParse == CallParseQuery

SpecParse == InitParse /\ [][NextParse]_vars

\* position i of s is a comma, a semicolon, or a letter of an occurrence of
\* the word w that has whitespace right before and right after it
InStandaloneWord(s, i, w) ==
  \E a \in {i - 1, i} :
    /\ a > 1 /\ a + 2 <= Len(s)
    /\ IsSpace(s[a - 1]) /\ IsSpace(s[a + 2])
    /\ LowerChar(s[a]) = w[1] /\ LowerChar(s[a + 1]) = w[2]
IsSeparatorPosition(s, i) ==
  \/ s[i] \in {",", ";"}
  \/ InStandaloneWord(s, i, <<"i", "n">>)
  \/ InStandaloneWord(s, i, <<"a", "t">>)

RECURSIVE SegmentsFrom(_, _, _)
\* the stretches of s between separator positions, from segment start p
SegmentsFrom(s, p, q) ==
  IF q > Len(s) THEN <<SubSeq(s, p, Len(s))>>
  ELSE IF IsSeparatorPosition(s, q)
       THEN <<SubSeq(s, p, q - 1)>> \o SegmentsFrom(s, q + 1, q + 1)
       ELSE SegmentsFrom(s, p, q + 1)

\* what splitting on every comma, semicolon and standalone "in"/"at" gives
TermsOfEverySeparator(s) ==
  LET segs == SegmentsFrom(s, 1, 1)
      trimmed == [i \in 1..Len(segs) |-> trim(segs[i])]
  IN SelectSeq(trimmed, LAMBDA term : Len(term) > 0)

\* C7: parseQuery splits on every comma, every semicolon and every
\* whitespace-delimited standalone "in" or "at" (any letter case), never
\* inside another word, and returns the trimmed non-empty segments in order.
C7_ParseSplitsOnEverySeparator ==
  (call.op = "parseQuery" /\ ret.status = "ok")
    => ret.value = TermsOfEverySeparator(call.query)

(***************************************************************************)
(* The search claims.  The terms of the query in hand are read off the     *)
(* query itself; the queries of the search specification have no two       *)
(* separators in a row.                                                    *)
(***************************************************************************)
IsSearchReturn ==
  call.op = "searchAdministrativeUnits" /\ ret.status # "pending"
QueryTerms == TermsOfEverySeparator(call.query)
IsShort(term) == Len(term) < minMatchCharLength
IsBlank(q) == \A i \in DOMAIN q : IsSpace(q[i])

\* C1: for the empty string and for every whitespace-only query, with any
\* limit, both entry points return an empty sequence and raise no error.
C1_BlankQueryReturnsEmpty ==
  (/\ call.op \in {"searchAdministrativeUnits", "exactSearchAdministrativeUnits"}
   /\ ret.status # "pending"
   /\ IsBlank(call.query))
    => (ret.status = "ok" /\ ret.value = <<>>)

\* C2: for every query of one or more terms and every limit that is zero or
\* negative, searchAdministrativeUnits returns an empty sequence.
C2_NonPositiveLimitReturnsEmpty ==
  (IsSearchReturn /\ Len(QueryTerms) >= 1 /\ call.limit <= 0)
    => (ret.status = "ok" /\ ret.value = <<>>)

\* the pooled matches of a term at all five levels, as the score table
\* gives them: level, id and similarity of every unit whose name matches
PooledMatches(term) ==
  {m \in UNION {{<<LevelName[k], CollectionAt(k)[i].id,
                   10 - Dissimilarity(term, CollectionAt(k)[i].name)>> :
                   i \in DOMAIN CollectionAt(k)} : k \in 1..5} :
     ~IsShort(term) /\ 10 - m[3] < threshold}
EntryOf(e) == <<e.type, e.id, e.score>>
Min(a, b) == IF a < b THEN a ELSE b

\* C3: for a query of exactly one term and a limit >= 0, the result is
\* sorted by similarity, non-increasing, has at most limit entries, and is
\* the limit best of the pooled matches of all five levels: its entries are
\* distinct pooled matches, there are min(limit, size of the pool) of them,
\* and no pooled match left out scores better than one returned.
C3_SingleTermBestOfPool ==
  (IsSearchReturn /\ Len(QueryTerms) = 1 /\ call.limit >= 0) =>
    /\ ret.status = "ok"
    /\ \A i \in 1..(Len(ret.value) - 1) :
         ret.value[i].score >= ret.value[i + 1].score
    /\ Len(ret.value) <= call.limit
    /\ With(PooledMatches(QueryTerms[1]), LAMBDA pool :
         /\ \A i \in DOMAIN ret.value : EntryOf(ret.value[i]) \in pool
         /\ \A i, j \in DOMAIN ret.value :
              EntryOf(ret.value[i]) = EntryOf(ret.value[j]) => i = j
         /\ Len(ret.value) = Min(call.limit, Cardinality(pool))
         /\ \A m \in pool :
              (\A i \in DOMAIN ret.value : EntryOf(ret.value[i]) # m)
                => \A i \in DOMAIN ret.value : m[3] <= ret.value[i].score)

C3_Witness ==
  /\ IsSearchReturn /\ Len(QueryTerms) = 1 /\ call.limit = 2
  /\ Cardinality(PooledMatches(QueryTerms[1])) > 4
  /\ Len(ret.value) = 2
  /\ ret.value[2].type # "district"
  /\ \E m \in PooledMatches(QueryTerms[1]) :
       /\ m[1] = "district"
       /\ m[3] < ret.value[2].score
       /\ \A i \in DOMAIN ret.value : EntryOf(ret.value[i]) # m

\* C4: in the result of a query of two or more terms, matchedTerms is
\* non-increasing along the sequence, and between adjacent entries of equal
\* matchedTerms the combined score (as the confidence reports it) is
\* non-increasing.
C4_MultiTermOrder ==
  (IsSearchReturn /\ Len(QueryTerms) >= 2) =>
    /\ ret.status = "ok"
    /\ \A i \in 1..(Len(ret.value) - 1) :
         /\ "matchInfo" \in DOMAIN ret.value[i]
         /\ "matchInfo" \in DOMAIN ret.value[i + 1]
         /\ ret.value[i].matchInfo.matchedTerms
              >= ret.value[i + 1].matchInfo.matchedTerms
         /\ ret.value[i].matchInfo.matchedTerms
              = ret.value[i + 1].matchInfo.matchedTerms
              => ret.value[i].matchInfo.confidence.thousandths
                   >= ret.value[i + 1].matchInfo.confidence.thousandths

C4_Witness ==
  /\ IsSearchReturn /\ Len(QueryTerms) >= 2 /\ ret.status = "ok"
  /\ Len(ret.value) >= 3
  /\ \E i \in 1..(Len(ret.value) - 1) :
       ret.value[i].matchInfo.matchedTerms > ret.value[i + 1].matchInfo.matchedTerms
  /\ \E i \in 1..(Len(ret.value) - 1) :
       /\ ret.value[i].matchInfo.matchedTerms = ret.value[i + 1].matchInfo.matchedTerms
       /\ ret.value[i].matchInfo.confidence.thousandths
            > ret.value[i + 1].matchInfo.confidence.thousandths
  /\ ret.value[1].type # "district"

LongTerms == SelectSeq(QueryTerms, LAMBDA term : ~IsShort(term))
HasShortTerm ==
  IsSearchReturn /\ Len(QueryTerms) >= 2 /\ Len(LongTerms) < Len(QueryTerms)

\* C6: in a query of two or more terms, a term shorter than two characters
\* is skipped without an error, whether it comes first or later: the result
\* is that of the query with the short terms removed (read here at the
\* limits that are positive).
C6_ShortTermAsIfRemoved ==
  (HasShortTerm /\ LongTerms # <<>> /\ call.limit >= 1) =>
    /\ ret.status = "ok"
    /\ \A q \in SearchQueries :
         TermsOfEverySeparator(q) = LongTerms
           => ret = searchAdministrativeUnits(q, call.limit)

(***************************************************************************)
(* The multi-term ranker on its own: the calls are the multi-term queries  *)
(* of up to MaxPools terms, with a limit that cuts the result and one that *)
(* does not.                                                               *)
(***************************************************************************)
MaxPools == 3

RankQueries ==
  {Join(ws, <<",", " ">>) : ws \in UNION {[1..n -> Words] : n \in 2..MaxPools}}

RankCalls ==
  {[NoCall EXCEPT !.op = "searchAdministrativeUnits", !.query = q, !.limit = l] :
     q \in RankQueries, l \in {MaxLimit, DefaultMaxResults}}

InitRank ==
  /\ \E pr \in SearchParents : LoadData(pr)
  /\ fuseScores \in ScoreTables
  /\ call \in RankCalls
  /\ ret = Pending

NextRank == CallSearch

SpecRank == InitRank /\ [][NextRank]_vars

\* the pools M1..MN of the query in hand, and what the ranking steps say of
\* a seed: the pools with a candidate related to it, the similarity of the
\* first such candidate of a pool, the total, the bonus, the combined score
PoolsOfQuery ==
  [i \in DOMAIN QueryTerms |->
     fuzzySearchSingleTerm(QueryTerms[i], MultiTermLimit)]
RelatedIn(seed, pool) == {k \in DOMAIN pool : areRelated(seed, pool[k])}
\* per pool, the index of its first candidate related to the seed, or 0
FirstRelatedIn(seed, pools) ==
  [i \in DOMAIN pools |->
     With(RelatedIn(seed, pools[i]), LAMBDA rel :
       IF i = 1 \/ rel = {} THEN 0
       ELSE CHOOSE k \in rel : \A j \in rel : k <= j)]
RECURSIVE SumOfFirstRelated(_, _, _)
SumOfFirstRelated(pools, first, i) ==
  IF i > Len(pools) THEN 0
  ELSE (IF first[i] = 0 THEN 0 ELSE pools[i][first[i]].score)
       + SumOfFirstRelated(pools, first, i + 1)
\* matchedTerms, hierarchyBonus and (totalScore / N) x hierarchyBonus x
\* (matchedTerms / N), the last as a fraction
RankingOf(seed, pools) ==
  With(FirstRelatedIn(seed, pools), LAMBDA first :
    With(1 + Cardinality({i \in DOMAIN pools : first[i] # 0}), LAMBDA matched :
      With(seed.score + SumOfFirstRelated(pools, first, 2), LAMBDA total :
        With(IF matched > 1 THEN 15 ELSE 10, LAMBDA bonus :
          [matchedTerms |-> matched, hierarchyBonus |-> bonus, first |-> first,
           combinedScore |-> [num |-> total * bonus * matched,
                              den |-> 100 * Len(pools) * Len(pools)]]))))
SameValue(x, y) == x.num * y.den = y.num * x.den
\* n thousandths is x written with three decimals: the nearest, the larger
\* of two equally near
IsThreeDecimalsOf(n, x) ==
  /\ 2 * n * x.den <= 2 * 1000 * x.num + x.den
  /\ 2 * (n + 1) * x.den > 2 * 1000 * x.num + x.den
SeedOf(e, pools) ==
  pools[1][CHOOSE k \in DOMAIN pools[1] :
             pools[1][k].type = e.type /\ pools[1][k].id = e.id]
IsRankReturn == IsSearchReturn /\ Len(QueryTerms) >= 2 /\ ret.status = "ok"

\* what C11 says of every seed before the result is cut
SeedsRankedAsStated(pools) ==
  With([i \in DOMAIN pools |-> [term |-> QueryTerms[i], matches |-> pools[i]]],
       LAMBDA termResults :
    \A k \in DOMAIN pools[1] :
      With(CombinedResultOf(pools[1][k], termResults), LAMBDA c :
        With(RankingOf(pools[1][k], pools), LAMBDA r :
          /\ c.matchCount = r.matchedTerms
          /\ c.hierarchyBonus = r.hierarchyBonus
          /\ SameValue(c.combinedScore, r.combinedScore))))

\* C11 as stated: for every seed of a multi-term query of N terms,
\* matchedTerms is 1 + the number of later pools with a candidate related to
\* the seed, totalScore adds the similarity of the first related candidate
\* of each such pool, hierarchyBonus is 1.5 when matchedTerms > 1 and 1.0
\* otherwise, and the attached matchInfo has totalTerms = N and a confidence
\* equal to combinedScore = (totalScore / N) x hierarchyBonus x
\* (matchedTerms / N).
C11_ConfidenceIsCombinedScore ==
  IsRankReturn =>
    With(PoolsOfQuery, LAMBDA pools :
      /\ SeedsRankedAsStated(pools)
      /\ \A i \in DOMAIN ret.value :
           With(RankingOf(SeedOf(ret.value[i], pools), pools), LAMBDA r :
             /\ ret.value[i].matchInfo.matchedTerms = r.matchedTerms
             /\ ret.value[i].matchInfo.totalTerms = Len(QueryTerms)
             /\ ret.value[i].matchInfo.confidence.thousandths * r.combinedScore.den
                  = 1000 * r.combinedScore.num))

\* C11 as amended: the same of matchedTerms, totalScore, hierarchyBonus and
\* totalTerms; the confidence is combinedScore written as a decimal string
\* with three digits after the point.
C11_ConfidenceIsCombinedScoreToThreeDecimals ==
  IsRankReturn =>
    With(PoolsOfQuery, LAMBDA pools :
      /\ SeedsRankedAsStated(pools)
      /\ \A i \in DOMAIN ret.value :
           /\ "matchInfo" \in DOMAIN ret.value[i]
           /\ With(RankingOf(SeedOf(ret.value[i], pools), pools), LAMBDA r :
                /\ ret.value[i].matchInfo.matchedTerms = r.matchedTerms
                /\ ret.value[i].matchInfo.totalTerms = Len(QueryTerms)
                /\ ret.value[i].matchInfo.confidence.string
                /\ IsThreeDecimalsOf(ret.value[i].matchInfo.confidence.thousandths,
                                     r.combinedScore)))

\* three terms; an entry related to both later pools (the bonus stays 1.5),
\* one whose first related candidate of a pool is not the pool's best, and
\* one whose combined score has more than three decimals
C11_Witness ==
  /\ IsRankReturn /\ Len(QueryTerms) = 3
  /\ With(PoolsOfQuery, LAMBDA pools :
       /\ \E i \in DOMAIN ret.value :
            /\ ret.value[i].matchInfo.matchedTerms = 3
            /\ RankingOf(SeedOf(ret.value[i], pools), pools).hierarchyBonus = 15
       /\ \E i \in DOMAIN ret.value :
            With(SeedOf(ret.value[i], pools), LAMBDA seed :
              With(RankingOf(seed, pools), LAMBDA r :
                \E p \in 2..3 :
                  /\ r.first[p] # 0
                  /\ \E k \in RelatedIn(seed, pools[p]) :
                       pools[p][k].score > pools[p][r.first[p]].score))
       /\ \E i \in DOMAIN ret.value :
            With(RankingOf(SeedOf(ret.value[i], pools), pools), LAMBDA r :
              ret.value[i].matchInfo.confidence.thousandths * r.combinedScore.den
                # 1000 * r.combinedScore.num))

\* C12: for a query of two or more terms and a limit >= 0, the result holds
\* only candidates matched against the first term, one entry per candidate,
\* and has min(limit, |M1|) entries; a candidate of M1 with no related
\* candidate in any other pool is returned all the same, with matchedTerms 1
\* and the bonus 1.0 in its confidence; candidates matched only by later
\* terms never appear.
C12_SeededFromFirstPoolOnly ==
  (IsSearchReturn /\ Len(QueryTerms) >= 2 /\ call.limit >= 0) =>
    /\ ret.status = "ok"
    /\ With(PooledMatches(QueryTerms[1]), LAMBDA m1 :
         /\ \A i \in DOMAIN ret.value : EntryOf(ret.value[i]) \in m1
         /\ \A i, j \in DOMAIN ret.value :
              EntryOf(ret.value[i]) = EntryOf(ret.value[j]) => i = j
         /\ Len(ret.value) = Min(call.limit, Cardinality(m1)))
    /\ With(PoolsOfQuery, LAMBDA pools :
         \A i \in DOMAIN ret.value :
           (\A p \in 2..Len(pools) : RelatedIn(ret.value[i], pools[p]) = {})
             => /\ "matchInfo" \in DOMAIN ret.value[i]
                /\ ret.value[i].matchInfo.matchedTerms = 1
                /\ IsThreeDecimalsOf(
                     ret.value[i].matchInfo.confidence.thousandths,
                     [num |-> ret.value[i].score * 10,
                      den |-> 100 * Len(pools) * Len(pools)]))

\* every candidate of M1 is returned: one related to a match of the second
\* term, one related to none, while a match of the second term that is not
\* in M1 stays out
C12_Witness ==
  /\ IsSearchReturn /\ Len(QueryTerms) = 2 /\ ret.status = "ok"
  /\ call.limit = DefaultMaxResults
  /\ Len(ret.value) = Cardinality(PooledMatches(QueryTerms[1]))
  /\ \E i \in DOMAIN ret.value : ret.value[i].matchInfo.matchedTerms = 2
  /\ With(PoolsOfQuery, LAMBDA pools :
       /\ \E i \in DOMAIN ret.value :
            /\ ret.value[i].matchInfo.matchedTerms = 1
            /\ RelatedIn(ret.value[i], pools[2]) = {}
       /\ \E k \in DOMAIN pools[2] :
            \A i \in DOMAIN ret.value :
              EntryOf(ret.value[i]) # EntryOf(pools[2][k]))

(***************************************************************************)
(* Calls in sequence.  A caller makes up to MaxCalls calls of the exported *)
(* functions, one after the other, each with any of the arguments below;   *)
(* call records the arguments (village is the object handed to            *)
(* getVillageHierarchy) and nth the number of the call.                    *)
(***************************************************************************)
MaxCalls == 2

SeqArgs(c, village) ==
  [op |-> c.op, type |-> c.type, id |-> c.id, type2 |-> c.type2,
   id2 |-> c.id2, query |-> c.query, limit |-> c.limit, village |-> village]

NoVillage == [id |-> Undefined, name |-> UndefinedName, parish |-> Undefined]

Accessors == {"getDistrictHierarchy", "getCountyHierarchy",
              "getSubCountyHierarchy", "getParishHierarchy"}

SeqCalls ==
  {SeqArgs([NoCall EXCEPT !.op = "searchAdministrativeUnits",
                          !.query = q, !.limit = l], NoVillage) :
     q \in {<<>>, TermKa, Join(<<TermNa, TermKa>>, <<",", " ">>)},
     l \in {DefaultMaxResults}}
  \cup
  {SeqArgs([NoCall EXCEPT !.op = "exactSearchAdministrativeUnits",
                          !.query = q], NoVillage) : q \in {TermKa}}
  \cup
  {SeqArgs([NoCall EXCEPT !.op = "getHierarchyChain", !.type = type, !.id = id],
           NoVillage) : type \in Types, id \in {"2", "9"}}
  \cup
  {SeqArgs([NoCall EXCEPT !.op = op, !.id = id], NoVillage) :
     op \in Accessors, id \in {"1", "9"}}
  \cup
  {SeqArgs([NoCall EXCEPT !.op = "getVillageHierarchy"],
           [id |-> "1", name |-> Na, parish |-> p]) : p \in {"2", "9"}}

Numbered(c, n) == [k \in DOMAIN c \cup {"nth"} |-> IF k = "nth" THEN n ELSE c[k]]

\* the score tables of the calls in sequence: Kan is a near match of "Ka"
\* and no match of "na"; Na and Ka are a near match or no match of the other
\* term
SeqScoreTables ==
  {t \in ScoreTables : /\ \A k \in DOMAIN t : t[k] # 3
                       /\ t[<<TermKa, Kan>>] = 1
                       /\ t[<<TermNa, Kan>>] = 10}

CallGetDistrictHierarchy ==
  /\ call.op = "getDistrictHierarchy"
  /\ ret.status = "pending"
  /\ ret' = Returned(getDistrictHierarchy(call.id))
  /\ UNCHANGED <<dataVars, call>>

CallGetCountyHierarchy ==
  /\ call.op = "getCountyHierarchy"
  /\ ret.status = "pending"
  /\ ret' = Returned(getCountyHierarchy(call.id))
  /\ UNCHANGED <<dataVars, call>>

CallGetSubCountyHierarchy ==
  /\ call.op = "getSubCountyHierarchy"
  /\ ret.status = "pending"
  /\ ret' = Returned(getSubCountyHierarchy(call.id))
  /\ UNCHANGED <<dataVars, call>>

CallGetParishHierarchy ==
  /\ call.op = "getParishHierarchy"
  /\ ret.status = "pending"
  /\ ret' = Returned(getParishHierarchy(call.id))
  /\ UNCHANGED <<dataVars, call>>

CallGetVillageHierarchy ==
  /\ call.op = "getVillageHierarchy"
  /\ ret.status = "pending"
  /\ ret' = Returned(getVillageHierarchy(call.village))
  /\ UNCHANGED <<dataVars, call>>

\* the last call has returned or thrown; the caller makes the next one
NextCall ==
  /\ ret.status # "pending"
  /\ call.nth < MaxCalls
  /\ \E c \in SeqCalls : call' = Numbered(c, call.nth + 1)
  /\ ret' = Pending
  /\ UNCHANGED dataVars

InitSeq ==
  /\ \E pr \in SearchParents : LoadData(pr)
  /\ fuseScores \in SeqScoreTables
  /\ \E c \in SeqCalls : call = Numbered(c, 1)
  /\ ret = Pending

NextSeq ==
  \/ CallSearch
  \/ CallExactSearch
  \/ CallGetHierarchyChain
  \/ CallGetDistrictHierarchy
  \/ CallGetCountyHierarchy
  \/ CallGetSubCountyHierarchy
  \/ CallGetParishHierarchy
  \/ CallGetVillageHierarchy
  \/ NextCall

SpecSeq == InitSeq /\ [][NextSeq]_vars

\* what a call with the arguments c returns (or throws) in the state in hand
ResultOf(c) ==
  CASE c.op = "searchAdministrativeUnits" ->
         searchAdministrativeUnits(c.query, c.limit)
    [] c.op = "exactSearchAdministrativeUnits" ->
         exactSearchAdministrativeUnits(c.query)
    [] c.op = "getHierarchyChain" -> Returned(getHierarchyChain(c.type, c.id))
    [] c.op = "getDistrictHierarchy" -> Returned(getDistrictHierarchy(c.id))
    [] c.op = "getCountyHierarchy" -> Returned(getCountyHierarchy(c.id))
    [] c.op = "getSubCountyHierarchy" -> Returned(getSubCountyHierarchy(c.id))
    [] c.op = "getParishHierarchy" -> Returned(getParishHierarchy(c.id))
    [] OTHER -> Returned(getVillageHierarchy(c.village))

ResultsOfAllCalls == [c \in SeqCalls |-> ResultOf(c)]

\* C13: no call of searchAdministrativeUnits, exactSearchAdministrativeUnits,
\* getHierarchyChain or a get*Hierarchy accessor, in any sequence, changes
\* the five collections or the four lookup maps (contents and order), and
\* so what a call with given arguments returns is the same before and after
\* any other call.
C13_CallsLeaveDataAndResultsUnchanged ==
  [][/\ UNCHANGED <<districts, counties, subCounties, parishes, villages,
                    districtMap, countyMap, subCountyMap, parishMap>>
     /\ ResultsOfAllCalls' = ResultsOfAllCalls]_vars

\* a call made after another call has returned a non-empty result
C13_Witness ==
  /\ "nth" \in DOMAIN call /\ call.nth = MaxCalls
  /\ call.op = "searchAdministrativeUnits"
  /\ ret.status = "ok" /\ ret.value # <<>>

====
